---- MODULE Spec2Model ----
(***************************************************************************)
(* Model of arduino_code/Three_Motors_Chat.ino: three winch motors, each   *)
(* with a quadrature encoder counted in an interrupt service routine, a    *)
(* cooperative loop() that reverses the motors at the travel bounds and    *)
(* saves the positions to EEPROM once a motor has been idle.               *)
(*                                                                         *)
(* setup() and loop() run as one sequential process whose position is pc;  *)
(* the three ISRs preempt it between any two steps while interrupts are    *)
(* enabled, each once its handler is attached.  A step is one statement    *)
(* that assigns a global or drives a motor; loads and stores of the 32-bit *)
(* globals are single steps (the sketch targets the 32-bit UNO R4).        *)
(* Time passes in delay(), which lasts delaytime ms, and by single         *)
(* milliseconds while the other statements of setup() and loop() run.      *)
(***************************************************************************)
EXTENDS Integers, Sequences, FiniteSets, TLC

VARIABLES
    pc,          \* position of setup()/loop()
    ien,         \* interrupts enabled (noInterrupts()/interrupts())
    attached,    \* per channel: attachInterrupt() done for its A line
    now,         \* true time since power-up (a Time, not wrapped)
    delaytime,   \* the global delaytime (configuration, ms)
    waited,      \* ms of the current delay() that have passed
    storage,     \* the Persist record at EEPROM address 0
    distance,    \* distance1..3 (configuration, mm)
    cnt,         \* cnt1..3
    lastChange,  \* lastChange1..3
    lastSaved,   \* lastSaved1..3
    steps,       \* steps1..3
    o,           \* setup() locals o1..o3
    c,           \* loop() locals c1..c3
    k,           \* the channel the statement at pc is about
    tRead,       \* value of millis() held by a comparison, or NotRead
    lcRead,      \* value of lastChangeN held by a comparison, or NotRead
    dir,         \* direction each motor was last told to run
    cmd,         \* run() call made for each motor in the latest cycle
    faultsLeft,  \* storage accesses that can still fail in this run
    bootRec,     \* history: the record in storage at power-up
    bootFailed,  \* history: a storage access of setup() failed
    init,        \* history: the counts setup() assigned
    sum,         \* history: signed sum of the edges decoded per channel
    edgeAt,      \* history: true time of the latest edge per channel, or NoEdge
    nEdges,      \* history: number of edges decoded so far
    nWrites,     \* history: number of EEPROM.put calls so far
    idleFlushes, \* history: per channel, the writes decided since its latest
                 \* edge at a time when it had truly been idle over the threshold
    speed,       \* speed each motor was last given with setSpeed()
    edgeSince,   \* history: per channel, an edge was decoded since the latest
                 \* write decided on its behalf (since power-up if none)
    ticks,       \* history: ms that passed outside delay() in this stretch
    cycles,      \* history: calls of delay() that ran out in this stretch
    burst        \* per channel, the edges its running motor produced since the
                 \* latest snapshot of loop() (since power-up if none)

vars == <<pc, ien, attached, now, storage, distance, cnt, lastChange, lastSaved,
          steps, o, c, k, tRead, lcRead, dir, cmd, faultsLeft, bootRec, bootFailed,
          init, sum, edgeAt, nEdges, nWrites, idleFlushes, speed, edgeSince,
          delaytime, waited, ticks, cycles, burst>>

(***************************************************************************)
(* Program constants                                                       *)
(***************************************************************************)
NumChannels == 3
Channels == 1..NumChannels
MAGIC == 48879                      \* 0xBEEF
ERASED_MAGIC == 65535               \* 0xFFFF, the marker of erased storage
T_IDLE == 5000
hall_feedback_resolution == 525     \* 1050.0/2.0
winch_diameter == 7
ShippedDelay == 100                 \* int delaytime = 100
\* stepsPerMM: the quotient 525/(2.0*PI*3.5) stored in a float is
\* 12516454 * 2^-19 = 23.873241424560547
StepsPerMMSig == 12516454
StepsPerMMUnit == 2 ^ 19
PiNum == 355                        \* PI lies between 333/106 ...
PiDen == 113
PiLowNum == 333                     \* ... and 355/113
PiLowDen == 106

(***************************************************************************)
(* Bounds of the model                                                     *)
(***************************************************************************)
MaxCycles == 1       \* calls of delay() that run out in a stretch of a run
MaxStops == 2        \* instants of a delay(), evenly spaced, at which ISRs run
MaxJitter == 1       \* ms that pass outside delay() in a stretch of a run
MaxEdges == 2        \* encoder edges decoded in a run
MaxFaults == 1       \* storage accesses that fail in a run with faulty storage
MaxBurst == 2        \* edges a running motor produces between two snapshots of loop()

Zeros == [i \in Channels |-> 0]

(***************************************************************************)
(* Times.  A time in ms is kept as <<h, l>>, worth h * Limb + l with       *)
(* 0 <= l < Limb, because a 32-bit unsigned value does not fit the         *)
(* integers of the model checker.  An unsigned long is a time below        *)
(* 2^32 = Limb * Limb: its h is below Limb.                                *)
(***************************************************************************)
Limb == 2 ^ 16
Time(h, l) == <<h + (l \div Limb), l % Limb>>
Ms(n) == Time(0, n)
ZeroTime == Ms(0)
OnePeriod == Time(Limb, 0)          \* 2^32 ms, the period of millis()
TimePlus(t, d) == Time(t[1], t[2] + d)
TimeMinus(a, b) == Time(a[1] - b[1], a[2] - b[2])
Before(a, b) == a[1] < b[1] \/ (a[1] = b[1] /\ a[2] < b[2])
\* the conversion to unsigned long: the value modulo 2^32
Word(t) == <<t[1] % Limb, t[2]>>
NoTimes == [i \in Channels |-> ZeroTime]
NotRead == <<-1, -1>>               \* no clock value: an operand not yet read
NoEdge == <<-1, 0>>                 \* no time of a run: no edge so far

Millis == Word(now)                 \* millis()

(***************************************************************************)
(* Inputs: what the EEPROM holds at power-up and the configured distances  *)
(***************************************************************************)
ErasedRecord == [p |-> <<-1, -1, -1>>, magic |-> ERASED_MAGIC]
SketchDistances == <<25, 35, 35>>   \* the values the sketch ships with
MotorSpeeds == <<30, 40, 40>>       \* motorspeed1..3
DegenerateDistances == <<25, 0, -1>>
\* a delaytime just over the idle threshold: one cycle makes a channel idle
LongDelay == T_IDLE + 1
\* the sketch as shipped (100 ms per cycle) powered up on a saved record
ShippedBoots ==
    { [rec |-> [p |-> <<12, -7, 3>>, magic |-> MAGIC], dist |-> SketchDistances,
       delay |-> ShippedDelay] }
\* a sketch built with the long delaytime and with a zero and a negative
\* distance, powered up on erased storage
IdleBoots ==
    { [rec |-> ErasedRecord, dist |-> DegenerateDistances, delay |-> LongDelay] }
Boots == ShippedBoots \cup IdleBoots
\* records with a marker that is neither the valid one nor the erased one
StaleRecords == { [p |-> <<4, 5, 6>>, magic |-> 0] }
BootRecords == { b.rec : b \in Boots } \cup StaleRecords
\* the power-up states of the runs with a motor coupled to its encoder: one
\* channel has a positive target (23) and is restored below 0, at 0, between
\* 0 and the target, at the target or above it; the sketch is built with
\* delaytime 0, so that loop() never waits and the run has no end
MotorDistances == <<1, 0, 0>>
MotorStarts == {-2, 0, 11, 23, 24}
MotorBoots ==
    { [rec |-> [p |-> <<n, 0, 0>>, magic |-> MAGIC], dist |-> MotorDistances,
       delay |-> 0] : n \in MotorStarts }
\* the power-up states of the runs checked for progress and across the wrap
\* of the clock
LiveBoots ==
    { [rec |-> [p |-> <<12, -7, 3>>, magic |-> MAGIC], dist |-> SketchDistances,
       delay |-> LongDelay] }
\* the power-up states of the runs of setup() that check the calibration
CalibDistances == {-5191, -5120, -25, -1, 0, 1, 25, 35, 5120, 5191}
CalibBoots ==
    { [rec |-> r, dist |-> <<d, e, e>>, delay |-> ShippedDelay] :
        r \in StaleRecords, d \in CalibDistances, e \in CalibDistances }

(***************************************************************************)
(* Pure parts of the sketch                                                *)
(***************************************************************************)
\* the integer nearest to a quotient n/d, halves away from zero
RoundDiv(n, d) ==
    IF n >= 0 THEN (2 * n + d) \div (2 * d) ELSE -((2 * (-n) + d) \div (2 * d))

\* A float keeps FloatDigits binary digits.  The exact product of a distance
\* d >= 0 and stepsPerMM is (hi * Chunk + lo) * 2^-19 with lo < Chunk = 2^12;
\* it is rounded to the nearest value of FloatDigits digits, ties to even,
\* and int() truncates the result
FloatDigits == 24
HalfDigits == FloatDigits \div 2
Chunk == 2 ^ HalfDigits
SigHigh == StepsPerMMSig \div Chunk
SigLow == StepsPerMMSig % Chunk
\* the number of binary digits n has beyond HalfDigits: with hi for n, the
\* number of low digits of the product that rounding drops
RECURSIVE Excess(_)
Excess(n) == IF n < Chunk THEN 0 ELSE 1 + Excess(n \div 2)
\* whether a significand whose dropped digits are worth r of 2*half is
\* incremented
RoundsUp(r, half, odd) == r > half \/ (r = half /\ odd)
\* the rounded product in units of Chunk * 2^-19
RoundedHigh(hi, lo, drop) ==
    IF drop = 0 THEN hi
    ELSE IF drop <= HalfDigits
    THEN LET q == lo \div (2 ^ drop)
             r == lo % (2 ^ drop)
             odd == IF drop < HalfDigits THEN q % 2 = 1 ELSE hi % 2 = 1
             up == IF RoundsUp(r, 2 ^ (drop - 1), odd) THEN 1 ELSE 0
         IN  hi + (((q + up) * (2 ^ drop)) \div Chunk)
    ELSE LET sh == 2 ^ (drop - HalfDigits)
             q == hi \div sh
             r == (hi % sh) * Chunk + lo
             up == IF RoundsUp(r, (sh \div 2) * Chunk, q % 2 = 1) THEN 1 ELSE 0
         IN  (q + up) * sh
\* int(d * stepsPerMM) for d >= 0
IntOfProduct(d) ==
    LET hi == d * SigHigh + ((d * SigLow) \div Chunk)
        lo == (d * SigLow) % Chunk
    IN  RoundedHigh(hi, lo, Excess(hi)) \div (StepsPerMMUnit \div Chunk)

\* steps = int(distance * stepsPerMM), the product being a float
TargetSteps_Round(dist) ==
    RoundDiv(dist * hall_feedback_resolution * PiDen, winch_diameter * PiNum)
TargetSteps(dist) ==
    IF dist >= 0 THEN IntOfProduct(dist) ELSE -IntOfProduct(-dist)

\* loadEEPROM's return value
loadEEPROM(p) == p.magic = MAGIC

\* the record saveEEPROM puts
saveEEPROM_Bad(ov) == [p |-> ov, magic |-> 0]
saveEEPROM(ov) == [p |-> ov, magic |-> MAGIC]

\* o1..o3 after line 52
RestoredCounts_Bad(p) == IF loadEEPROM(p) THEN Zeros ELSE p.p
RestoredCounts(p) == IF loadEEPROM(p) THEN p.p ELSE Zeros

\* the ISR's change of its counter
IsrDelta_Bad(a, b) == IF a # b THEN 1 ELSE -1
IsrDelta(a, b) == IF a = b THEN 1 ELSE -1

\* the if/else-if of lines 76..78: the run() call made, if any
Decide_Strict(cv, target) ==
    IF cv > target THEN "BACKWARD" ELSE IF cv < 0 THEN "FORWARD" ELSE "NONE"
Decide_Swapped(cv, target) ==
    IF cv < 0 THEN "FORWARD" ELSE IF cv >= target THEN "BACKWARD" ELSE "NONE"
Decide_Release(cv, target) ==
    IF cv >= target THEN "RELEASE" ELSE IF cv < 0 THEN "FORWARD" ELSE "NONE"
Decide(cv, target) ==
    IF cv >= target THEN "BACKWARD" ELSE IF cv < 0 THEN "FORWARD" ELSE "NONE"

\* the targets of the distances a run can be configured with
Distances ==
    UNION { { b.dist[i] : i \in Channels } : b \in Boots \cup MotorBoots \cup LiveBoots }
Targets == [d \in Distances |-> TargetSteps(d)]

\* millis()-lastChangeN in unsigned arithmetic
IdleDiff_Signed(t, lc) == TimeMinus(t, lc)
IdleDiff(t, lc) == Word(TimeMinus(t, lc))

\* the condition of lines 81..83
ShouldFlush_NoChangeGate(t, lc, cv, saved) ==
    Before(Ms(T_IDLE), IdleDiff(t, lc))
ShouldFlush(t, lc, cv, saved) ==
    Before(Ms(T_IDLE), IdleDiff(t, lc)) /\ cv # saved

(***************************************************************************)
(* Initial state: power-up                                                 *)
(***************************************************************************)
InitCommon(boots) ==
    /\ \E b \in boots : storage = b.rec /\ distance = b.dist /\ delaytime = b.delay
    /\ pc = "restore"
    /\ ien = TRUE
    /\ attached = [i \in Channels |-> FALSE]
    /\ now = ZeroTime
    /\ waited = 0
    /\ ticks = 0
    /\ cycles = 0
    /\ bootRec = storage
    /\ cnt = Zeros
    /\ lastChange = NoTimes
    /\ lastSaved = Zeros
    /\ steps = Zeros
    /\ o = Zeros
    /\ c = Zeros
    /\ k = 1
    /\ tRead = NotRead
    /\ lcRead = NotRead
    /\ dir = [i \in Channels |-> "RELEASE"]
    /\ cmd = [i \in Channels |-> "NONE"]
    /\ bootFailed = FALSE
    /\ init = Zeros
    /\ sum = Zeros
    /\ edgeAt = [i \in Channels |-> NoEdge]
    /\ nEdges = 0
    /\ nWrites = 0
    /\ idleFlushes = Zeros
    /\ speed = Zeros
    /\ edgeSince = [i \in Channels |-> FALSE]
    /\ burst = Zeros

Init == InitCommon(ShippedBoots) /\ faultsLeft = 0
InitIdle == InitCommon(IdleBoots) /\ faultsLeft = 0
InitFaulty == InitCommon(Boots) /\ faultsLeft = MaxFaults
InitLive == InitCommon(LiveBoots) /\ faultsLeft = 0
InitMotor == InitCommon(MotorBoots) /\ faultsLeft = 0
InitCalib == InitCommon(CalibBoots) /\ faultsLeft = 0

\* whether a storage access succeeds
IoOutcomes == IF faultsLeft > 0 THEN BOOLEAN ELSE {TRUE}

(***************************************************************************)
(* setup()                                                                 *)
(***************************************************************************)
\* lines 51..52: o1=o2=o3=0; load the record, on a wrong marker zero and save
Restore ==
    /\ pc = "restore"
    /\ \E rok \in IoOutcomes, wok \in IoOutcomes, junk \in BootRecords :
         LET p == IF rok THEN storage ELSE junk
             valid == loadEEPROM(p)
         IN /\ o' = RestoredCounts(p)
            /\ storage' = IF ~valid /\ wok THEN saveEEPROM(RestoredCounts(p))
                          ELSE storage
            /\ nWrites' = IF valid THEN nWrites ELSE nWrites + 1
            /\ bootFailed' = (~rok \/ (~valid /\ ~wok))
            /\ faultsLeft' = faultsLeft - (IF rok THEN 0 ELSE 1)
                                        - (IF ~valid /\ ~wok THEN 1 ELSE 0)
            /\ faultsLeft' >= 0
    /\ pc' = "adopt"
    /\ UNCHANGED <<ien, attached, now, distance, cnt, lastChange, lastSaved, steps,
                   c, k, tRead, lcRead, dir, cmd, bootRec, init, sum, edgeAt, nEdges,
                   idleFlushes, speed, edgeSince>>
    /\ UNCHANGED <<delaytime, waited, ticks, cycles, burst>>

\* the channel of the statement after the one about channel k
NextK == IF k < NumChannels THEN k + 1 ELSE 1

\* line 53: the counters take o1..o3 with interrupts masked
Adopt ==
    /\ pc = "adopt"
    /\ cnt' = o
    /\ init' = o
    /\ pc' = "remember"
    /\ UNCHANGED <<ien, attached, now, storage, distance, lastChange, lastSaved, steps,
                   o, c, k, tRead, lcRead, dir, cmd, faultsLeft, bootRec, bootFailed,
                   sum, edgeAt, nEdges, nWrites, idleFlushes, speed, edgeSince>>
    /\ UNCHANGED <<delaytime, waited, ticks, cycles, burst>>

\* line 54: lastSaved<k> = cnt<k>
Remember ==
    /\ pc = "remember"
    /\ lastSaved' = [lastSaved EXCEPT ![k] = cnt[k]]
    /\ k' = NextK
    /\ pc' = IF k < NumChannels THEN "remember" ELSE "calibrate"
    /\ UNCHANGED <<ien, attached, now, storage, distance, cnt, lastChange, steps, o, c,
                   tRead, lcRead, dir, cmd, faultsLeft, bootRec, bootFailed, init, sum,
                   edgeAt, nEdges, nWrites, idleFlushes, speed, edgeSince>>
    /\ UNCHANGED <<delaytime, waited, ticks, cycles, burst>>

\* lines 56..59: steps<k> = int(distance<k>*stepsPerMM)
Calibrate ==
    /\ pc = "calibrate"
    /\ steps' = [steps EXCEPT ![k] = TargetSteps(distance[k])]
    /\ k' = NextK
    /\ pc' = IF k < NumChannels THEN "calibrate" ELSE "attach"
    /\ UNCHANGED <<ien, attached, now, storage, distance, cnt, lastChange, lastSaved,
                   o, c, tRead, lcRead, dir, cmd, faultsLeft, bootRec, bootFailed,
                   init, sum, edgeAt, nEdges, nWrites, idleFlushes, speed, edgeSince>>
    /\ UNCHANGED <<delaytime, waited, ticks, cycles, burst>>

\* lines 62..64: attachInterrupt() for the A line of encoder k
Attach_Early ==
    /\ \/ pc = "attach" /\ k' = NextK
       \/ pc \in {"restore", "adopt", "remember", "calibrate"} /\ ~attached[k] /\ k' = k
    /\ attached' = [attached EXCEPT ![k] = TRUE]
    /\ pc' = IF pc # "attach" THEN pc
             ELSE IF k < NumChannels THEN "attach" ELSE "begin"
    /\ UNCHANGED <<ien, now, storage, distance, cnt, lastChange, lastSaved, steps, o,
                   c, tRead, lcRead, dir, cmd, faultsLeft, bootRec, bootFailed, init,
                   sum, edgeAt, nEdges, nWrites, idleFlushes, speed, edgeSince>>
    /\ UNCHANGED <<delaytime, waited, ticks, cycles, burst>>
Attach ==
    /\ pc = "attach"
    /\ attached' = [attached EXCEPT ![k] = TRUE]
    /\ k' = NextK
    /\ pc' = IF k < NumChannels THEN "attach" ELSE "begin"
    /\ UNCHANGED <<ien, now, storage, distance, cnt, lastChange, lastSaved, steps, o,
                   c, tRead, lcRead, dir, cmd, faultsLeft, bootRec, bootFailed, init,
                   sum, edgeAt, nEdges, nWrites, idleFlushes, speed, edgeSince>>
    /\ UNCHANGED <<delaytime, waited, ticks, cycles, burst>>

\* lines 66..67: the motor shield is initialised
Begin ==
    /\ pc = "begin"
    /\ pc' = "speed"
    /\ UNCHANGED <<ien, attached, now, storage, distance, cnt, lastChange, lastSaved,
                   steps, o, c, k, tRead, lcRead, dir, cmd, faultsLeft, bootRec,
                   bootFailed, init, sum, edgeAt, nEdges, nWrites, idleFlushes, speed,
                   edgeSince>>
    /\ UNCHANGED <<delaytime, waited, ticks, cycles, burst>>

\* lines 68..70: m<k>->setSpeed(motorspeed<k>)
SetSpeed ==
    /\ pc = "speed"
    /\ speed' = [speed EXCEPT ![k] = MotorSpeeds[k]]
    /\ pc' = "run"
    /\ UNCHANGED <<ien, attached, now, storage, distance, cnt, lastChange, lastSaved,
                   steps, o, c, k, tRead, lcRead, dir, cmd, faultsLeft, bootRec,
                   bootFailed, init, sum, edgeAt, nEdges, nWrites, idleFlushes,
                   edgeSince>>
    /\ UNCHANGED <<delaytime, waited, ticks, cycles, burst>>

\* lines 68..70: m<k>->run(FORWARD); after the third motor setup() returns
RunForward ==
    /\ pc = "run"
    /\ dir' = [dir EXCEPT ![k] = "FORWARD"]
    /\ k' = NextK
    /\ pc' = IF k < NumChannels THEN "speed" ELSE "mask"
    /\ UNCHANGED <<ien, attached, now, storage, distance, cnt, lastChange, lastSaved,
                   steps, o, c, tRead, lcRead, cmd, faultsLeft, bootRec, bootFailed,
                   init, sum, edgeAt, nEdges, nWrites, idleFlushes, speed, edgeSince>>
    /\ UNCHANGED <<delaytime, waited, ticks, cycles, burst>>

(***************************************************************************)
(* The interrupt service routines                                          *)
(***************************************************************************)
\* lines 41..43: the body of isrEnc<i> when it samples the levels a, b
IsrRun_SharedStamp(i, a, b) ==
    /\ cnt' = [cnt EXCEPT ![i] = @ + IsrDelta(a, b)]
    /\ lastChange' = [j \in Channels |-> Millis]
    /\ sum' = [sum EXCEPT ![i] = IF a = b THEN @ + 1 ELSE @ - 1]
    /\ edgeAt' = [edgeAt EXCEPT ![i] = now]
    /\ idleFlushes' = [idleFlushes EXCEPT ![i] = 0]
    /\ edgeSince' = [edgeSince EXCEPT ![i] = TRUE]
    /\ UNCHANGED <<pc, ien, attached, now, storage, distance, lastSaved, steps, o, c,
                   k, tRead, lcRead, dir, cmd, faultsLeft, bootRec, bootFailed, init,
                   nWrites, speed>>
    /\ UNCHANGED <<delaytime, waited, ticks, cycles>>
IsrRun(i, a, b) ==
    /\ cnt' = [cnt EXCEPT ![i] = @ + IsrDelta(a, b)]
    /\ lastChange' = [lastChange EXCEPT ![i] = Millis]
    /\ sum' = [sum EXCEPT ![i] = IF a = b THEN @ + 1 ELSE @ - 1]
    /\ edgeAt' = [edgeAt EXCEPT ![i] = now]
    /\ idleFlushes' = [idleFlushes EXCEPT ![i] = 0]
    /\ edgeSince' = [edgeSince EXCEPT ![i] = TRUE]
    /\ UNCHANGED <<pc, ien, attached, now, storage, distance, lastSaved, steps, o, c,
                   k, tRead, lcRead, dir, cmd, faultsLeft, bootRec, bootFailed, init,
                   nWrites, speed>>
    /\ UNCHANGED <<delaytime, waited, ticks, cycles>>

\* isrEnc<i> is entered on a change of its A line, with any levels
Isr(i) ==
    /\ attached[i]
    /\ ien
    /\ nEdges < MaxEdges
    /\ nEdges' = nEdges + 1
    /\ burst' = burst
    /\ \E a \in BOOLEAN, b \in BOOLEAN : IsrRun(i, a, b)

\* A motor coupled to its encoder: from the moment it is started (line 68..70)
\* the motor of a channel configured with a positive target (DrivenChannels)
\* turns the encoder, whose handler is attached by then; the edges count up
\* while the motor is commanded FORWARD (a = b) and down while it is commanded
\* BACKWARD.  The motor produces at most MaxBurst edges between two snapshots
\* of loop(), and at most MaxBurst before the first one.
DrivenChannels == { i \in Channels : Targets[MotorDistances[i]] > 0 }
MotorEdge(i) ==
    /\ attached[i]
    /\ ien
    /\ i \in DrivenChannels
    /\ dir[i] \in {"FORWARD", "BACKWARD"}
    /\ burst[i] < MaxBurst
    /\ burst' = [burst EXCEPT ![i] = @ + 1]
    /\ nEdges' = IF nEdges < MaxEdges THEN nEdges + 1 ELSE nEdges
    /\ IsrRun(i, TRUE, dir[i] = "FORWARD")

(***************************************************************************)
(* Time                                                                    *)
(***************************************************************************)
\* a millisecond passes while a statement of setup() or loop() other than
\* delay() runs; at pc = "delay" that is the printing of lines 85..87, before
\* delay() is called
Tick ==
    /\ pc # "delay" \/ waited = 0
    /\ ticks < MaxJitter
    /\ ticks' = ticks + 1
    /\ now' = TimePlus(now, 1)
    /\ UNCHANGED <<pc, ien, attached, storage, distance, cnt, lastChange, lastSaved,
                   steps, o, c, k, tRead, lcRead, dir, cmd, faultsLeft, bootRec,
                   bootFailed, init, sum, edgeAt, nEdges, nWrites, idleFlushes,
                   speed, edgeSince, delaytime, waited, cycles, burst>>

\* the instants of a delay() at which the wait is observed, in ms since its
\* start: MaxStops of them, evenly spaced, the last one the end of the wait
Stops == { (j * delaytime) \div MaxStops : j \in 1..MaxStops }

\* line 90, delay(delaytime) in progress: time passes to a later instant of
\* the wait; the ISRs run in between.  A stretch of a run has n calls of
\* delay() that run out
WaitWithin(n) ==
    /\ pc = "delay"
    /\ cycles < n
    /\ \E s \in Stops :
         /\ s > waited
         /\ now' = TimePlus(now, s - waited)
         /\ waited' = s
         /\ cycles' = IF s = delaytime THEN cycles + 1 ELSE cycles
    /\ UNCHANGED <<pc, ien, attached, storage, distance, cnt, lastChange, lastSaved,
                   steps, o, c, k, tRead, lcRead, dir, cmd, faultsLeft, bootRec,
                   bootFailed, init, sum, edgeAt, nEdges, nWrites, idleFlushes,
                   speed, edgeSince, delaytime, ticks, burst>>
Wait == WaitWithin(MaxCycles)
\* the runs checked for progress go on for one cycle more: a cycle follows the
\* one in which a channel that moved at power-up is found idle
LiveCycles == MaxCycles + 1
LiveWait == WaitWithin(LiveCycles)

\* Between two cycles of loop() that find nothing to do (every count saved,
\* the commands those the snapshot gives) pass as many whole cycles as fit
\* before the clock wraps: each of them would leave every variable but the
\* time as it is.  The run goes on in the last cycle before the wrap.
QuietEnd ==
    LET left == ((Limb % delaytime) * (Limb % delaytime) - 1 - now[1] * Limb - now[2])
                    % delaytime
    IN  Time(Limb - 1, Limb - 1 - left)
QuietPeriod ==
    /\ pc = "mask"
    /\ delaytime > 0
    /\ Before(now, Time(Limb \div 2, 0))
    /\ cnt = lastSaved
    /\ c = cnt
    /\ cmd = [i \in Channels |-> Decide(c[i], steps[i])]
    /\ now' = QuietEnd
    /\ ticks' = 0
    /\ cycles' = 0
    /\ UNCHANGED <<pc, ien, attached, storage, distance, cnt, lastChange, lastSaved,
                   steps, o, c, k, tRead, lcRead, dir, cmd, faultsLeft, bootRec,
                   bootFailed, init, sum, edgeAt, nEdges, nWrites, idleFlushes,
                   speed, edgeSince, delaytime, waited, burst>>

(***************************************************************************)
(* loop()                                                                  *)
(***************************************************************************)
\* line 74: noInterrupts()
Mask ==
    /\ pc = "mask"
    /\ ien' = FALSE
    /\ pc' = "copy"
    /\ UNCHANGED <<attached, now, storage, distance, cnt, lastChange, lastSaved, steps,
                   o, c, k, tRead, lcRead, dir, cmd, faultsLeft, bootRec, bootFailed,
                   init, sum, edgeAt, nEdges, nWrites, idleFlushes, speed, edgeSince>>
    /\ UNCHANGED <<delaytime, waited, ticks, cycles, burst>>

\* line 74: c1=cnt1,c2=cnt2,c3=cnt3; interrupts()
Copy_Consume ==
    /\ pc = "copy"
    /\ c' = cnt
    /\ cnt' = Zeros
    /\ ien' = TRUE
    /\ pc' = "control"
    /\ UNCHANGED <<attached, now, storage, distance, lastChange, lastSaved, steps,
                   o, k, tRead, lcRead, dir, cmd, faultsLeft, bootRec, bootFailed,
                   init, sum, edgeAt, nEdges, nWrites, idleFlushes, speed, edgeSince>>
    /\ UNCHANGED <<delaytime, waited, ticks, cycles>>
    /\ burst' = Zeros
Copy ==
    /\ pc = "copy"
    /\ c' = cnt
    /\ ien' = TRUE
    /\ pc' = "control"
    /\ UNCHANGED <<attached, now, storage, distance, cnt, lastChange, lastSaved, steps,
                   o, k, tRead, lcRead, dir, cmd, faultsLeft, bootRec, bootFailed,
                   init, sum, edgeAt, nEdges, nWrites, idleFlushes, speed, edgeSince>>
    /\ UNCHANGED <<delaytime, waited, ticks, cycles>>
    /\ burst' = Zeros

\* lines 76..78: the if/else-if of channel k
Control ==
    /\ pc = "control"
    /\ cmd' = [cmd EXCEPT ![k] = Decide(c[k], steps[k])]
    /\ dir' = [dir EXCEPT ![k] = IF Decide(c[k], steps[k]) = "NONE" THEN @
                                 ELSE Decide(c[k], steps[k])]
    /\ k' = NextK
    /\ pc' = IF k < NumChannels THEN "control" ELSE "idle1"
    /\ UNCHANGED <<ien, attached, now, storage, distance, cnt, lastChange, lastSaved,
                   steps, o, c, tRead, lcRead, faultsLeft, bootRec, bootFailed, init,
                   sum, edgeAt, nEdges, nWrites, idleFlushes, speed, edgeSince>>
    /\ UNCHANGED <<delaytime, waited, ticks, cycles, burst>>

\* true time since the latest edge of channel i (since power-up if none)
Since(i) == TimeMinus(now, IF edgeAt[i] = NoEdge THEN ZeroTime ELSE edgeAt[i])
\* channel i has truly been without an edge for longer than the threshold
TrueIdle(i) == edgeAt[i] # NoEdge /\ Before(Ms(T_IDLE), Since(i))

\* where loop() goes after the comparison of channel k
AfterIdle == IF k < NumChannels THEN "idle1" ELSE "delay"

\* lines 81..83: the first operand of millis()-lastChange<k> is evaluated;
\* the language leaves the order of the two operands to the compiler
IdleFirst ==
    /\ pc = "idle1"
    /\ \/ tRead' = Millis /\ lcRead' = NotRead
       \/ lcRead' = lastChange[k] /\ tRead' = NotRead
    /\ pc' = "idle2"
    /\ UNCHANGED <<ien, attached, now, storage, distance, cnt, lastChange, lastSaved,
                   steps, o, c, k, dir, cmd, faultsLeft, bootRec, bootFailed, init, sum,
                   edgeAt, nEdges, nWrites, idleFlushes, speed, edgeSince>>
    /\ UNCHANGED <<delaytime, waited, ticks, cycles, burst>>

\* lines 81..83: the other operand and the condition
IdleSecond ==
    /\ pc = "idle2"
    /\ LET t == IF tRead = NotRead THEN Millis ELSE tRead
           lc == IF lcRead = NotRead THEN lastChange[k] ELSE lcRead
       IN IF ShouldFlush(t, lc, c[k], lastSaved[k])
          THEN /\ idleFlushes' = [idleFlushes EXCEPT ![k] =
                                    IF TrueIdle(k) THEN @ + 1 ELSE @]
               /\ edgeSince' = [edgeSince EXCEPT ![k] = FALSE]
               /\ pc' = "assign"
               /\ k' = k
          ELSE /\ idleFlushes' = idleFlushes
               /\ edgeSince' = edgeSince
               /\ pc' = AfterIdle
               /\ k' = NextK
    /\ tRead' = NotRead
    /\ lcRead' = NotRead
    /\ UNCHANGED <<ien, attached, now, storage, distance, cnt, lastChange, lastSaved,
                   steps, o, c, dir, cmd, faultsLeft, bootRec, bootFailed, init, sum,
                   edgeAt, nEdges, nWrites, speed>>
    /\ UNCHANGED <<delaytime, waited, ticks, cycles, burst>>

\* lines 81..83: lastSaved<k> = c<k>
Assign ==
    /\ pc = "assign"
    /\ lastSaved' = [lastSaved EXCEPT ![k] = c[k]]
    /\ pc' = "save"
    /\ UNCHANGED <<ien, attached, now, storage, distance, cnt, lastChange, steps, o, c,
                   k, tRead, lcRead, dir, cmd, faultsLeft, bootRec, bootFailed, init,
                   sum, edgeAt, nEdges, nWrites, idleFlushes, speed, edgeSince>>
    /\ UNCHANGED <<delaytime, waited, ticks, cycles, burst>>

\* lines 81..83: saveEEPROM(lastSaved1,lastSaved2,lastSaved3)
Save_Snapshot ==
    /\ pc = "save"
    /\ \E wok \in IoOutcomes :
         /\ storage' = IF wok THEN saveEEPROM(c) ELSE storage
         /\ faultsLeft' = IF wok THEN faultsLeft ELSE faultsLeft - 1
    /\ nWrites' = nWrites + 1
    /\ pc' = AfterIdle
    /\ k' = NextK
    /\ UNCHANGED <<ien, attached, now, distance, cnt, lastChange, lastSaved, steps, o,
                   c, tRead, lcRead, dir, cmd, bootRec, bootFailed, init, sum, edgeAt,
                   nEdges, idleFlushes, speed, edgeSince>>
    /\ UNCHANGED <<delaytime, waited, ticks, cycles, burst>>
Save ==
    /\ pc = "save"
    /\ \E wok \in IoOutcomes :
         /\ storage' = IF wok THEN saveEEPROM(lastSaved) ELSE storage
         /\ faultsLeft' = IF wok THEN faultsLeft ELSE faultsLeft - 1
    /\ nWrites' = nWrites + 1
    /\ pc' = AfterIdle
    /\ k' = NextK
    /\ UNCHANGED <<ien, attached, now, distance, cnt, lastChange, lastSaved, steps, o,
                   c, tRead, lcRead, dir, cmd, bootRec, bootFailed, init, sum, edgeAt,
                   nEdges, idleFlushes, speed, edgeSince>>
    /\ UNCHANGED <<delaytime, waited, ticks, cycles, burst>>

\* line 90: delay(delaytime) returns once delaytime ms have passed since it
\* was called (the telemetry of lines 85..87 is printed before the call)
Delay ==
    /\ pc = "delay"
    /\ waited = delaytime
    /\ waited' = 0
    /\ pc' = "mask"
    /\ UNCHANGED <<ien, attached, now, storage, distance, cnt, lastChange, lastSaved,
                   steps, o, c, k, tRead, lcRead, dir, cmd, faultsLeft, bootRec,
                   bootFailed, init, sum, edgeAt, nEdges, nWrites, idleFlushes,
                   speed, edgeSince, delaytime, ticks, cycles, burst>>

(***************************************************************************)
(* Specifications                                                          *)
(***************************************************************************)
SetupStep ==
    Restore \/ Adopt \/ Remember \/ Calibrate \/ Attach \/ Begin \/ SetSpeed \/ RunForward
LoopStep ==
    Mask \/ Copy \/ Control \/ IdleFirst \/ IdleSecond \/ Assign \/ Save \/ Delay
Program == SetupStep \/ LoopStep
Edge == \E i \in Channels : Isr(i)

Next == Program \/ Wait \/ Edge \/ Tick

\* the runs checked for progress: the encoders move during the first
\* MaxCycles cycles and rest in the last one; time passes in delay() only
LiveEdge == cycles < MaxCycles /\ Edge
NextLive == Program \/ LiveWait \/ LiveEdge
\* the runs that go on across the wrap of the clock: time passes in delay()
\* and in quiet periods
NextWrap == Program \/ Wait \/ Edge \/ QuietPeriod

Motion == \E i \in Channels : MotorEdge(i)
\* the ms of a run with a coupled motor pass before its MaxEdges-th edge
EarlyTick == nEdges < MaxEdges /\ Tick
\* delaytime is 0 in these runs: delay() returns at once
NextMotor == Program \/ Motion \/ EarlyTick

\* setup() alone
NextCalib == SetupStep

\* the sketch as shipped, reliable storage
Spec == Init /\ [][Next]_vars
\* the sketch with a cycle longer than the idle threshold, reliable storage
SpecIdle == InitIdle /\ [][Next]_vars
\* storage whose reads and writes can fail
SpecFaulty == InitFaulty /\ [][Next]_vars
\* the processor keeps running setup() and loop(), and the time of delay()
\* passes
SpecLive == InitLive /\ [][NextLive]_vars /\ WF_vars(Program \/ LiveWait)
\* a run long enough for millis() to wrap
SpecWrap == InitLive /\ [][NextWrap]_vars
\* the processor keeps running, and the motors keep turning their encoders
\* (an edge is decoded again and again, though not while interrupts are
\* masked)
SpecMotor ==
    /\ InitMotor
    /\ [][NextMotor]_vars
    /\ WF_vars(Program)
    /\ \A i \in DrivenChannels : SF_vars(MotorEdge(i))
\* the calibration over a range of distances
SpecCalib == InitCalib /\ [][NextCalib]_vars

SetupPcs == {"restore", "adopt", "remember", "calibrate", "attach", "begin",
             "speed", "run"}
LoopPcs == {"mask", "copy", "control", "idle1", "idle2", "assign", "save", "delay"}

TypeOK ==
    /\ pc \in SetupPcs \cup LoopPcs
    /\ ien \in BOOLEAN
    /\ attached \in [Channels -> BOOLEAN]
    /\ now = Time(now[1], now[2])
    /\ now[1] >= 0
    /\ \A i \in Channels : lastChange[i] = Word(lastChange[i])
    /\ waited \in {0} \cup Stops
    /\ ticks \in 0..MaxJitter
    /\ cycles \in 0..LiveCycles
    /\ k \in Channels
    /\ nEdges \in 0..MaxEdges
    /\ \A i \in Channels : burst[i] \in 0..MaxBurst

(***************************************************************************)
(* Properties                                                              *)
(***************************************************************************)
AfterControl == {"idle1", "idle2", "assign", "save", "delay"}
ZeroRecord == [p |-> Zeros, magic |-> MAGIC]
\* setup() has not yet executed line 62: no handler is attached
BeforeAttach ==
    pc \in {"restore", "adopt", "remember", "calibrate"} \/ (pc = "attach" /\ k = 1)
\* lines 51..54 are done and no handler is attached yet
RestoreDone == pc = "calibrate" \/ (pc = "attach" /\ k = 1)

\* loop() decides to write on behalf of channel k
FlushDecided == pc = "idle2" /\ pc' = "assign"
\* loop() assigns lastSaved<k> for the write it decided
Assigned == pc = "assign" /\ pc' = "save"
\* loop() performs the write it decided
FlushDone == pc = "save" /\ pc' # "save"
\* the ISR of channel i runs
EdgeOn(i) == sum'[i] # sum[i]

\* C1 (as claimed): whenever loop() decides a storage write on behalf of a
\* channel, that channel has had no edge during the preceding idle threshold
\* and its count differs from its lastSaved value.
C1_PersistenceGating ==
    [][FlushDecided =>
         /\ cnt[k] # lastSaved[k]
         /\ (edgeAt[k] = NoEdge \/ ~Before(Since(k), Ms(T_IDLE)))]_vars

\* C2 (as claimed): every flush writes a record whose entry for every channel
\* is that channel's count at the time of the write, with the valid marker.
C2_AtomicBatchWrite ==
    [][FlushDone => storage' = [p |-> cnt, magic |-> MAGIC]]_vars

\* C3: when storage holds a record with the valid marker at power-up, then
\* after the restore every count equals its stored value, every lastSaved
\* equals its count, and nothing was written to storage.
C3_RestoreRoundTrip ==
    loadEEPROM(bootRec) =>
        /\ pc = "adopt" => (o = bootRec.p /\ storage = bootRec /\ nWrites = 0)
        /\ pc = "remember" => (cnt = bootRec.p /\ storage = bootRec /\ nWrites = 0)
        /\ RestoreDone =>
             /\ cnt = bootRec.p
             /\ lastSaved = cnt
             /\ storage = bootRec
             /\ nWrites = 0
C3_Witness ==
    /\ pc = "calibrate"
    /\ bootRec = [p |-> <<12, -7, 3>>, magic |-> MAGIC]
    /\ cnt = <<12, -7, 3>>
    /\ lastSaved = <<12, -7, 3>>

\* C4: when the stored marker is not the sentinel, the restore zeroes every
\* count and lastSaved and at once writes the all-zero record with the valid
\* marker; from then on the stored record always carries the valid marker.
C4_InvalidRecovered ==
    /\ ~loadEEPROM(bootRec) =>
         /\ (pc \in {"adopt", "remember"} \/ RestoreDone) =>
              (storage = ZeroRecord /\ nWrites = 1)
         /\ RestoreDone => (cnt = Zeros /\ lastSaved = Zeros)
    /\ pc # "restore" => storage.magic = MAGIC
C4_Witness ==
    /\ pc \in LoopPcs
    /\ bootRec = ErasedRecord
    /\ storage = ZeroRecord
    /\ init = Zeros

\* C5: every edge adds +1 to its channel's count when the sampled levels
\* are equal and -1 when they differ, and stamps lastChange with the clock;
\* so at any time a count is its restored value plus the signed sum of its
\* edges, however the edges interleave with loop() and with other channels.
C5_QuadratureSignLaw ==
    pc \notin {"restore", "adopt"} =>
        \A i \in Channels :
            /\ cnt[i] = init[i] + sum[i]
            /\ edgeAt[i] # NoEdge => lastChange[i] = Word(edgeAt[i])
C5_Witness ==
    /\ pc \in AfterControl
    /\ \E i, j \in Channels :
         /\ i # j
         /\ sum[i] = 1 /\ cnt[i] = init[i] + 1
         /\ sum[j] = -1 /\ cnt[j] = init[j] - 1

\* loop() executes the direction statement of channel k
Controlled == pc = "control" /\ k' # k

\* C6: in a controller cycle, for each channel with target T = steps, the
\* backward command is issued iff the snapshot count >= T, the forward
\* command iff the snapshot count < T and < 0, and no command when
\* 0 <= count < T, which leaves the commanded direction as it was; once the
\* three statements are done every channel has been treated so.
C6_BoundsControlLaw ==
    /\ [][Controlled =>
            /\ cmd'[k] = "BACKWARD" <=> c[k] >= steps[k]
            /\ cmd'[k] = "FORWARD" <=> (c[k] < steps[k] /\ c[k] < 0)
            /\ (0 <= c[k] /\ c[k] < steps[k]) =>
                   (cmd'[k] = "NONE" /\ dir'[k] = dir[k])
            /\ cmd'[k] # "NONE" => dir'[k] = cmd'[k]
            /\ \A i \in Channels \ {k} : cmd'[i] = cmd[i] /\ dir'[i] = dir[i]]_vars
    /\ [](pc \in AfterControl =>
            \A i \in Channels :
                /\ cmd[i] = "BACKWARD" <=> c[i] >= steps[i]
                /\ cmd[i] = "FORWARD" <=> (c[i] < steps[i] /\ c[i] < 0))
C6_Witness ==
    /\ pc = "idle1"
    /\ \E i \in Channels : cmd[i] = "BACKWARD" /\ c[i] >= steps[i]
    /\ \E i \in Channels : cmd[i] = "FORWARD" /\ c[i] < 0
    /\ \E i \in Channels : cmd[i] = "NONE" /\ c[i] >= 0 /\ c[i] < steps[i]

\* C7 (as claimed): every read loop() makes of a count or of lastChange is
\* inside a critical section: no ISR of that channel runs during the copy of
\* the counts, nor between the read of the clock and the read of lastChange
\* of one idle comparison.
C7_AtomicSnapshot ==
    [][\A i \in Channels :
         EdgeOn(i) => (pc # "copy" /\ ~(pc = "idle2" /\ k = i))]_vars

\* the idle condition of channel i as loop() would compute it now
IdleCond(i) == Before(Ms(T_IDLE), IdleDiff(Millis, lastChange[i]))
Pending(i) == pc \in LoopPcs /\ cnt[i] # lastSaved[i] /\ IdleCond(i)
\* the run goes on for another snapshot and the comparisons after it
CanCycle ==
    \/ cycles < LiveCycles
    \/ pc \in {"mask", "copy"}
    \/ pc = "delay" /\ waited = delaytime

\* C8: a channel whose count differs from lastSaved and that gets no further
\* edge is, once its idle time exceeds the threshold and with loop() running
\* fairly (for as long as the run goes on), flushed; the write decided then
\* is decided on the current count and leaves lastSaved equal to it, and
\* after it no write is decided on behalf of the channel, in that cycle or a
\* later one, until its next edge.
C8_EventualSingleFlush ==
    /\ \A i \in Channels : (Pending(i) /\ CanCycle) ~> ~Pending(i)
    /\ [][FlushDecided => idleFlushes[k] = 0]_vars
    /\ [][(FlushDecided /\ TrueIdle(k)) => c[k] = cnt[k]]_vars
    /\ [][Assigned => lastSaved'[k] = c[k]]_vars
    /\ [](\A i \in Channels :
            (idleFlushes[i] > 0 /\ ~(pc = "assign" /\ k = i)) =>
                (idleFlushes[i] = 1 /\ lastSaved[i] = cnt[i]))
\* a channel that moved at power-up was flushed in the cycle after the first
\* delay, and the cycle after the second delay has left it alone
C8_Witness ==
    /\ pc = "delay"
    /\ cycles = LiveCycles
    /\ waited = 0
    /\ Before(Ms(T_IDLE + T_IDLE), now)
    /\ \E i \in Channels :
         /\ edgeAt[i] = ZeroTime
         /\ TrueIdle(i)
         /\ idleFlushes[i] = 1
         /\ nWrites = 1
         /\ cnt[i] # init[i]
         /\ lastSaved[i] = cnt[i]
         /\ storage.p[i] = cnt[i]

\* C9 (as claimed): a channel whose target is 0 or negative is commanded
\* backward in every controller cycle, whatever its count.
C9_AlwaysBackward ==
    \A i \in Channels :
        (pc \in AfterControl /\ steps[i] <= 0) => cmd[i] = "BACKWARD"

\* C9 (amended): a channel whose target is 0 or negative is given a direction
\* command in every controller cycle, never none: backward when the snapshot
\* count >= target, forward when the count is below the target.
C9_DegenerateTarget ==
    \A i \in Channels :
        (pc \in AfterControl /\ steps[i] <= 0) =>
            /\ cmd[i] # "NONE"
            /\ cmd[i] = "BACKWARD" <=> c[i] >= steps[i]
            /\ cmd[i] = "FORWARD" <=> c[i] < steps[i]
            /\ dir[i] = cmd[i]
C9_Witness ==
    /\ pc = "idle1"
    /\ \E i \in Channels : steps[i] = 0 /\ c[i] < 0 /\ cmd[i] = "FORWARD"
    /\ \E i \in Channels : steps[i] < 0 /\ c[i] >= steps[i] /\ cmd[i] = "BACKWARD"

\* C10 (as claimed): when a storage access of the restore fails, the control
\* loop is never entered.
C10_FailFast == bootFailed => pc \notin LoopPcs

\* the statements of setup() before the targets are computed
BeforeCalibrated == {"restore", "adopt", "remember", "calibrate"}
\* numerator and denominator of the real quotient distance*resolution/(pi*diameter)
QuotNum(i) == distance[i] * hall_feedback_resolution * PiDen
QuotDen == winch_diameter * PiNum

\* C11 (as claimed): once calibrated, a channel configured with distance 25
\* (resolution 525, diameter 7.0) has as target the integer nearest to the
\* real quotient 25*525/(pi*7.0).
C11_NearestInteger ==
    pc \notin BeforeCalibrated =>
        \A i \in Channels :
            distance[i] = 25 => steps[i] = RoundDiv(QuotNum(i), QuotDen)

\* C11 (amended): once calibrated, a channel configured with distance 25 has
\* the target 596, the real quotient 25*525/(pi*7.0) truncated toward zero;
\* every target is the value the calibration computes from the channel's
\* distance, a negative distance giving the negated target of the positive
\* one, and channels with equal distances have equal targets.
C11_TruncatedTarget ==
    pc \notin BeforeCalibrated =>
        /\ \A i \in Channels :
             /\ distance[i] = 25 =>
                  /\ steps[i] = 596
                  /\ steps[i] * QuotDen <= QuotNum(i)
                  /\ distance[i] * hall_feedback_resolution * PiLowDen
                        < (steps[i] + 1) * winch_diameter * PiLowNum
             /\ steps[i] = TargetSteps(distance[i])
             /\ steps[i] = IF distance[i] >= 0 THEN IntOfProduct(distance[i])
                           ELSE -IntOfProduct(-distance[i])
        /\ \A i, j \in Channels : distance[i] = distance[j] => steps[i] = steps[j]
C11_Witness ==
    /\ pc = "begin"
    /\ distance = <<25, 5120, 5120>>
    /\ steps[1] = 596
    /\ steps[1] # RoundDiv(QuotNum(1), QuotDen)
    /\ steps[2] = 122231 /\ steps[3] = steps[2]

\* a statement of loop() is executed
LoopStepTaken == pc \in LoopPcs /\ (pc' # pc \/ k' # k)
\* an ISR runs
IsrTaken == \E i \in Channels : EdgeOn(i)

\* C12: a statement of loop() leaves every count, lastChange, target and
\* motor speed as it was; once loop() runs, a count or lastChange changes
\* only in a step of an ISR; and whenever loop() is running every target has
\* the value the calibration gave it.
C12_LoopFrame ==
    /\ [][LoopStepTaken =>
            /\ cnt' = cnt
            /\ lastChange' = lastChange
            /\ steps' = steps
            /\ speed' = speed]_vars
    /\ [][(pc \in LoopPcs /\ (cnt' # cnt \/ lastChange' # lastChange)) => IsrTaken]_vars
    /\ [](pc \in LoopPcs =>
            /\ steps = [i \in Channels |-> Targets[distance[i]]]
            /\ speed = MotorSpeeds)
C12_Witness ==
    /\ pc = "delay"
    /\ nWrites >= 2
    /\ \E i \in Channels :
         sum[i] = 2 /\ lastChange[i] # ZeroTime /\ lastSaved[i] = cnt[i]
    /\ steps = [i \in Channels |-> Targets[distance[i]]]
    /\ steps[1] > 0
    /\ speed = MotorSpeeds

\* C13: a run of the ISR of channel i changes, of the program's data, only
\* that channel's count and lastChange: the other channels' counts and
\* lastChange values, every lastSaved value and target, the stored record
\* and the motors' directions are left as they were.
C13_DecoderFrame ==
    [][\A i \in Channels :
         EdgeOn(i) =>
            /\ \A j \in Channels \ {i} :
                 cnt'[j] = cnt[j] /\ lastChange'[j] = lastChange[j]
            /\ cnt'[i] # cnt[i]
            /\ lastChange'[i] = Millis
            /\ lastSaved' = lastSaved
            /\ steps' = steps
            /\ storage' = storage
            /\ dir' = dir
            /\ cmd' = cmd
            /\ c' = c]_vars
C13_Witness ==
    /\ nEdges = 2
    /\ sum[1] = 1 /\ sum[2] = -1 /\ sum[3] = 0
    /\ edgeAt[1] # NoEdge /\ Before(edgeAt[1], edgeAt[2])
    /\ lastChange[1] = Word(edgeAt[1])
    /\ lastChange[2] = Word(edgeAt[2])
    /\ lastChange[3] = ZeroTime
    /\ cnt[3] = init[3]

\* C14: with a motor that turns its encoder in the commanded direction and a
\* processor that keeps running, a channel with a positive target is, from a
\* restored count below 0, between 0 and the target or above the target,
\* commanded BACKWARD again and again and FORWARD again and again; loop()
\* reverses it to BACKWARD only on a snapshot count >= target and to FORWARD
\* only on a snapshot count < 0.
C14_Oscillation ==
    /\ \A i \in DrivenChannels :
         /\ []<>(dir[i] = "BACKWARD")
         /\ []<>(dir[i] = "FORWARD")
    /\ [][\A i \in Channels :
            (pc \in LoopPcs /\ dir'[i] # dir[i]) =>
                \/ dir'[i] = "BACKWARD" /\ c[i] >= steps[i]
                \/ dir'[i] = "FORWARD" /\ c[i] < 0]_vars
C14_Witness ==
    /\ pc = "idle1"
    /\ \E i \in Channels :
         /\ steps[i] > 0
         /\ init[i] > steps[i]
         /\ nWrites > 0
         /\ c[i] < 0
         /\ cmd[i] = "FORWARD"
         /\ dir[i] = "FORWARD"

Calibrated == steps = [i \in Channels |-> Targets[distance[i]]]
\* no ISR has run and none can
DecoderOff == (\A i \in Channels : ~attached[i]) /\ nEdges = 0 /\ sum = Zeros
\* loop() finds the counts restored (and moved by the ISRs since), the targets
\* calibrated
LoopReady ==
    pc \in LoopPcs =>
        /\ Calibrated
        /\ init = RestoredCounts(bootRec)
        /\ \A i \in Channels : cnt[i] = init[i] + sum[i]

\* C15 (as claimed): the targets are calibrated when the restore assigns the
\* counts; no ISR runs before the counts are assigned, and loop() finds both
\* done.
C15_CalibrationFirst ==
    /\ pc \in {"adopt", "remember"} => Calibrated
    /\ BeforeAttach => DecoderOff
    /\ LoopReady

\* C15 (amended): the restore assigns the counts while the targets are still
\* uncalibrated, the calibration follows, and only then are the ISRs
\* attached; no ISR runs before the counts are assigned (none of a channel
\* before its handler is attached), and loop() finds both done.
C15_RestoreFirst ==
    /\ pc = "remember" => (cnt = RestoredCounts(bootRec) /\ steps = Zeros)
    /\ pc = "calibrate" =>
         /\ cnt = RestoredCounts(bootRec)
         /\ lastSaved = cnt
         /\ k = 1 => steps = Zeros
    /\ pc = "attach" => Calibrated
    /\ RestoreDone => cnt = RestoredCounts(bootRec)
    /\ BeforeAttach => DecoderOff
    /\ \A i \in Channels : ~attached[i] => sum[i] = 0
    /\ pc \in {"restore", "adopt"} => cnt = Zeros
    /\ LoopReady
C15_Witness ==
    /\ pc = "idle1"
    /\ init = <<12, -7, 3>>
    /\ sum = <<1, -1, 0>>
    /\ c = <<13, -8, 3>>
    /\ steps = <<596, 835, 835>>
    /\ cmd[2] = "FORWARD"

\* C16 (as claimed): every write that loop() decides on behalf of a channel
\* is preceded by an edge on that channel decoded since the previous write
\* decided on its behalf (since power-up for the first one); so a channel
\* has no more writes than edges and a run without edges has no write.
C16_WriteWear ==
    [][FlushDecided => edgeSince[k]]_vars

\* the restore and every write it decided are complete
Settled == pc \notin {"restore", "adopt", "remember", "save"}

\* C17: with storage accesses that succeed, whenever the restore is done and
\* no write is in progress, the stored record holds the three lastSaved
\* values under the valid marker, so that a restore from it would yield
\* exactly the lastSaved values.
C17_RecordMirrorsLastSaved ==
    Settled =>
        /\ storage = [p |-> lastSaved, magic |-> MAGIC]
        /\ loadEEPROM(storage)
        /\ RestoredCounts(storage) = lastSaved
C17_Witness ==
    /\ pc = "delay"
    /\ nWrites >= 2
    /\ lastSaved # init
    /\ cnt # lastSaved
    /\ storage.p = lastSaved
    /\ storage # bootRec

\* loop() completes the comparison of channel k
Compared == pc = "idle2" /\ pc' # "idle2"
\* the operands the comparison uses
OperandT == IF tRead = NotRead THEN Millis ELSE tRead
OperandLc == IF lcRead = NotRead THEN lastChange[k] ELSE lcRead
\* both operands have the values a read would return now: the clock has not
\* moved since it was read and lastChange<k> holds the value that was read
\* (an ISR that stamped the same millisecond may have run in between)
SteadyRead == OperandT = Millis /\ OperandLc = lastChange[k]
\* the clock wrapped since the latest edge of channel i
Wrapped(i) ==
    edgeAt[i] # NoEdge /\ now[1] \div Limb > edgeAt[i][1] \div Limb
\* the comparison is exact: it sees the true elapsed time and decides on it
ExactIdle ==
    /\ IdleDiff(OperandT, OperandLc) = Since(k)
    /\ pc' = "assign" <=> (Before(Ms(T_IDLE), Since(k)) /\ c[k] # lastSaved[k])

\* C18 (as claimed): a comparison made after the clock wrapped since the
\* channel's latest edge, on operands that have their current values, sees
\* the true elapsed time and decides as it would without the wrap.
C18_WrapSafe ==
    [][(Compared /\ SteadyRead /\ Wrapped(k)) => ExactIdle]_vars

\* C18 (amended): a comparison made less than one clock period (2^32 ms)
\* after the channel's latest edge, on operands that have their current
\* values, sees the true elapsed time and decides on it, whether or not the
\* clock wrapped in between.
C18_WrapWithinPeriod ==
    [][(Compared /\ SteadyRead /\ Before(Since(k), OnePeriod)) => ExactIdle]_vars
C18_Witness ==
    /\ pc = "save"
    /\ Wrapped(k)
    /\ Before(Since(k), OnePeriod)
    /\ Before(Ms(T_IDLE), Since(k))
    /\ Before(Millis, lastChange[k])
    /\ IdleDiff(Millis, lastChange[k]) = Since(k)
    /\ idleFlushes[k] = 1
    /\ lastSaved[k] = c[k]

====
